---- MODULE Spec2Model ----
(***************************************************************************)
(* Model of the sandboxed command-execution lifecycle manager of           *)
(* pai_agent_sdk: DockerSandbox (sandbox/shell/docker_.py) over the        *)
(* Sandbox interface and error taxonomy (sandbox/shell/base.py).           *)
(*                                                                         *)
(* One caller coroutine issues start / stop / execute / _wait_for_ready    *)
(* against a container platform whose answers (statuses, faults, latency)  *)
(* are nondeterministic inputs.  Time is counted in ticks of half a        *)
(* second, the poller's sleep interval.                                    *)
(*                                                                         *)
(* Specifications: Spec (every operation, one environment), SpecPoll and   *)
(* FairPoll (start and the poller, slow probes), SpecTwo (two environments *)
(* and a second caller), SpecEnv (the environment maps of start) and       *)
(* SpecExecutor (the closures of get_executor).                            *)
(*                                                                         *)
(* Python semantics assumed: asyncio.TimeoutError is the builtin           *)
(* TimeoutError (Python >= 3.11), so `except TimeoutError` catches the     *)
(* expiry of asyncio.wait_for.                                             *)
(***************************************************************************)
EXTENDS Integers, Sequences, FiniteSets, TLC

VARIABLES
    autoBuild,          \* self._auto_build
    client,             \* self._client is not None
    imagePresent,       \* the platform holds self._image_name
    status,             \* platform: container id -> status
    used,               \* platform: container ids issued so far
    pc,                 \* position of the caller coroutine
    op,                 \* arguments and locals of the call in progress
    calls,              \* backend calls made by the call in progress
    elapsed,            \* time.time() - start_time of the call, in ticks
    pstatus,            \* _wait_for_ready: local `status`, or the probe's exception
    sawFail,            \* some probe of this poller call raised NotFound/APIError
    sawStatus,          \* some probe of this poller call returned a status
    outcome,            \* how the last call ended
    stopped,            \* ids on which a stop has completed without raising
    abandoned,          \* worker-pool calls abandoned by a fired deadline, still running
    env,                \* platform: container id -> environment it was launched with
    peer,               \* how the last call of a second, concurrent caller ended
    executors,          \* container_id captured by each closure get_executor returned
    made,               \* docker.from_env() calls this instance has made
    clientRef,          \* which of them self._client holds (0: None)
    wk,                 \* blocking calls of the instance running on the worker pool
    other               \* a second DockerSandbox: its client, and how its last call ended

vars == <<autoBuild, client, imagePresent, status, used, pc, op,
          calls, elapsed, pstatus, sawFail, sawStatus, outcome, stopped, abandoned,
          env, peer, executors, made, clientRef, wk, other>>

----------------------------------------------------------------------------
(* Bounds of the model *)

MaxContainers == 1      \* container ids the platform can issue
MaxProbeLatency == 1    \* ticks one readiness probe may block
MaxExecLatency == 3     \* ticks an undeadlined execute is followed for
MaxAbandoned == 1       \* abandoned worker calls in flight
MaxExecutors == 2       \* closures obtained from get_executor
MaxWorkers == 2         \* blocking calls of one instance on the worker pool at once

(* Program constants *)

TicksPerSecond == 2             \* asyncio.sleep(0.5): one tick is the 0.5 s interval
Interval == 1                   \* the poller's sleep, in ticks
DEFAULT_START_TIMEOUT == 30     \* `timeout or 30`, seconds
DEFAULT_EXPIRE_SECONDS == 300   \* start(..., expire_seconds: int = 300)

----------------------------------------------------------------------------
(* Values *)

IdOf(i) == "c" \o ToString(i)
Ids == {IdOf(i) : i \in 1..MaxContainers}       \* ids the platform can issue
Bogus == "nonexistent_container_id"             \* an id it never issued
NoHandle == ""

None == <<>>                    \* Python None for an optional number
NoneBytes == "<None>"           \* Python None where bytes are expected
Some(n) == <<n>>

EmptyMap == [k \in {} |-> ""]   \* the dict {}
NoEnv == EmptyMap               \* a container that was never launched

Statuses == {"absent", "created", "running", "exited", "dead"}

StatusOf(h) == IF h \in DOMAIN status THEN status[h] ELSE "absent"

----------------------------------------------------------------------------
(* Exception classes: base.py 11-32, the docker.errors classes caught in   *)
(* docker_.py, and the Python builtins build() raises.                     *)

Parent ==
    [ SandboxError               |-> "Exception",
      SandboxTimeoutError        |-> "SandboxError",
      SandboxStartTimeoutError   |-> "SandboxTimeoutError",
      SandboxExecuteTimeoutError |-> "SandboxTimeoutError",
      DockerException            |-> "Exception",
      APIError                   |-> "DockerException",
      NotFound                   |-> "APIError",
      ImageNotFound              |-> "NotFound",
      BuildError                 |-> "DockerException",
      OSError                    |-> "Exception",
      TimeoutError               |-> "OSError",
      FileNotFoundError          |-> "OSError",
      RuntimeError               |-> "Exception",
      Exception                  |-> "Exception" ]

RECURSIVE IsInstance(_, _)
IsInstance(e, c) ==
    IF e = c THEN TRUE
    ELSE IF e \notin DOMAIN Parent \/ e = "Exception" THEN FALSE
    ELSE IsInstance(Parent[e], c)

IsSandboxError(k) == IsInstance(k, "SandboxError")
IsSandboxTimeout(k) == IsInstance(k, "SandboxTimeoutError")

----------------------------------------------------------------------------
(* Records *)

NoOp ==
    [ name |-> "none", dirExists |-> TRUE, timeout |-> None, h |-> NoHandle,
      arg |-> None, again |-> FALSE, pre |-> "absent", fault |-> "none",
      afterStart |-> FALSE,
      environment |-> None,                         \* start: `environment`
      expire_seconds |-> DEFAULT_EXPIRE_SECONDS,    \* start: `expire_seconds`
      command |-> "none",                           \* execute: `command`
      via |-> 0,            \* execute: the closure it was called through, 0: directly
      imgBefore |-> FALSE,  \* start: the image existed when the call began
      before |-> 0,         \* start: ticks spent before _wait_for_ready was entered
      sleeps |-> 0,         \* poller: sleeps since the last probe returned
      lastProbe |-> -1 ]    \* poller: `elapsed` when the last probe returned

(* a blocking call on the worker pool, at its read of self.client *)
Workers == 1..MaxWorkers
IdleWorker == [ pc |-> "idle", call |-> "none", uses |-> 0 ]

(* a second instance before its first call *)
NoOther ==
    [ client |-> FALSE, op |-> "none", h |-> NoHandle, pre |-> "absent", fault |-> "none",
      kind |-> "none", val |-> <<>>, cause |-> "none" ]

(* outcome of a call of the second caller *)
NoPeer == [ op |-> "none", h |-> NoHandle, val |-> <<>> ]

(* no answer of exec_run: the command did not run *)
NoRaw ==
    [ exit_code |-> -1, output |-> [shape |-> "none", out |-> NoneBytes, err |-> NoneBytes] ]

NoOutcome ==
    [ op |-> "none", kind |-> "none", stage |-> "none", h |-> NoHandle,
      val |-> <<>>, at |-> 0, cause |-> "none", raw |-> NoRaw ]

(* Mutant: the exception carries the handle of the call *)
RaisedWithHandle(name, exc, stage, at, cause) ==
    [ op |-> name, kind |-> exc, stage |-> stage, h |-> op.h, val |-> <<>>, at |-> at,
      cause |-> cause, raw |-> NoRaw ]

Raised(name, exc, stage, at, cause) ==
    [ op |-> name, kind |-> exc, stage |-> stage, h |-> NoHandle, val |-> <<>>, at |-> at,
      cause |-> cause, raw |-> NoRaw ]

Returned(name, h, val, at) ==
    [ op |-> name, kind |-> "ok", stage |-> "return", h |-> h, val |-> val, at |-> at,
      cause |-> "none", raw |-> NoRaw ]

----------------------------------------------------------------------------
(* Mutant: build(force=True), the existence check is skipped *)
BuildForced(img, dfile, getFault, buildFault) ==
    IF ~dfile
    THEN [exc |-> "FileNotFoundError", calls |-> {}, image |-> img]
    ELSE IF buildFault = "none"
    THEN [exc |-> "none", calls |-> {"images.build"}, image |-> TRUE]
    ELSE [exc |-> "RuntimeError", calls |-> {"images.build"}, image |-> img]

(* DockerSandbox.build(force=False), run by start on the worker pool.      *)
(* getFault / buildFault: the platform fault, if any, of images.get and    *)
(* images.build.  Result: the exception leaving build ("none": returns),   *)
(* the backend calls made, and whether the image exists afterwards.        *)
Build(img, dfile, getFault, buildFault) ==
    LET getExc == IF getFault # "none" THEN getFault
                  ELSE IF img THEN "none" ELSE "ImageNotFound"
    IN  IF getExc = "none"
        THEN [exc |-> "none", calls |-> {"images.get"}, image |-> img]
        ELSE IF ~IsInstance(getExc, "ImageNotFound")
        THEN [exc |-> getExc, calls |-> {"images.get"}, image |-> img]
        ELSE IF ~dfile
        THEN [exc |-> "FileNotFoundError", calls |-> {"images.get"}, image |-> img]
        ELSE IF buildFault = "none"
        THEN [exc |-> "none", calls |-> {"images.get", "images.build"}, image |-> TRUE]
        ELSE IF IsInstance(buildFault, "BuildError")
        THEN [exc |-> "RuntimeError", calls |-> {"images.get", "images.build"}, image |-> img]
        ELSE IF IsInstance(buildFault, "APIError")
        THEN [exc |-> "RuntimeError", calls |-> {"images.get", "images.build"}, image |-> img]
        ELSE [exc |-> buildFault, calls |-> {"images.get", "images.build"}, image |-> img]

(* start: the environment handed to the container.                         *)

Digit == <<"0", "1", "2", "3", "4", "5", "6", "7", "8", "9">>

(* str(n) of a Python int *)
RECURSIVE Str(_)
Str(n) ==
    IF n < 0 THEN "-" \o Str(-n)
    ELSE IF n < 10 THEN Digit[n + 1]
    ELSE Str(n \div 10) \o Digit[(n % 10) + 1]

(* truth value of `environment`: None and {} are both false *)
Truthy(environment) == environment # None /\ DOMAIN environment[1] # {}

(* a.update(b) *)
DictUpdate(a, b) ==
    [k \in DOMAIN a \cup DOMAIN b |-> IF k \in DOMAIN b THEN b[k] ELSE a[k]]

(* Mutant: the injected values win on a key collision *)
ContainerEnvInjectedWins(environment, expire_seconds) ==
    LET container_env == [EXPIRE_SECONDS |-> Str(expire_seconds), SHELL |-> "/bin/bash"]
    IN  IF Truthy(environment) THEN DictUpdate(environment[1], container_env)
        ELSE container_env

(* container_env of start *)
ContainerEnv(environment, expire_seconds) ==
    LET container_env == [EXPIRE_SECONDS |-> Str(expire_seconds), SHELL |-> "/bin/bash"]
    IN  IF Truthy(environment) THEN DictUpdate(container_env, environment[1])
        ELSE container_env

(* DockerSandbox._start_container: the directory check, then              *)
(* _run_container on the worker pool.  Result: the exception ("none": a    *)
(* container was launched) and the backend calls made.                     *)

RunContainer(dirExists, img, fault) ==
    IF ~dirExists
    THEN [exc |-> "SandboxError", stage |-> "validate", calls |-> {}, cause |-> "none"]
    ELSE LET runExc == IF fault # "none" THEN fault
                       ELSE IF img THEN "none" ELSE "ImageNotFound"
         IN  IF runExc = "none"
             THEN [exc |-> "none", stage |-> "launch", calls |-> {"containers.run"},
                   cause |-> runExc]
             ELSE IF IsInstance(runExc, "ImageNotFound")
             THEN [exc |-> "SandboxError", stage |-> "launch", calls |-> {"containers.run"},
                   cause |-> runExc]
             ELSE IF IsInstance(runExc, "APIError")
             THEN [exc |-> "SandboxError", stage |-> "launch", calls |-> {"containers.run"},
                   cause |-> runExc]
             ELSE [exc |-> runExc, stage |-> "launch", calls |-> {"containers.run"},
                   cause |-> runExc]

(* Mutant: the platform hands out an id it has issued before *)
FreshIdReused == IdOf(1)

(* container.id of a launched container: the platform issues ids in order  *)
(* (ids are opaque, so which unused one it issues does not matter) *)
FreshId == IdOf(Cardinality(used) + 1)

(* Mutant: the timeout is passed on as given *)
StartTimeoutAsGiven(t) == IF t = None THEN 0 ELSE t[1]

(* start: `timeout or 30`, in seconds *)
StartTimeout(t) == IF t = None \/ t = Some(0) THEN DEFAULT_START_TIMEOUT ELSE t[1]

----------------------------------------------------------------------------
(* DockerSandbox._wait_for_ready *)

(* _check_status: containers.get + reload + status; a status, or the      *)
(* exception the platform raises. *)
CheckStatus(h, fault) ==
    IF fault # "none" THEN fault
    ELSE IF StatusOf(h) = "absent" THEN "NotFound"
    ELSE StatusOf(h)

(* Mutant: "exited" is not treated as terminal *)
TerminalStatusOnlyDead(s) == s \in {"dead"}

(* `status in ["exited", "dead"]` *)
TerminalStatus(s) == s \in {"exited", "dead"}

(* Mutant: a probe fault ends the poller at once instead of being retried *)
PollExceptNoRetry(exc, el, deadline) ==
    IF IsInstance(exc, "APIError") THEN "SandboxStartTimeoutError" ELSE exc

(* The except clauses of the loop body, for an exception raised in the try *)
(* block at `el` ticks after start_time: "sleep" (retry) or the exception  *)
(* that leaves the poller. *)
PollExcept(exc, el, deadline) ==
    IF IsInstance(exc, "NotFound")
    THEN IF el >= deadline THEN "SandboxStartTimeoutError" ELSE "sleep"
    ELSE IF IsInstance(exc, "APIError")
    THEN IF el >= deadline THEN "SandboxStartTimeoutError" ELSE "sleep"
    ELSE exc

(* Mutant: any status the platform reports counts as ready *)
PollBodyAnyStatus(res, el, deadline) ==
    IF res \in Statuses THEN "return"
    ELSE IF el >= deadline THEN "SandboxStartTimeoutError" ELSE "sleep"

(* Mutant: a container that is not running yet is reported as failed *)
PollBodyPendingFails(res, el, deadline) ==
    IF res \in Statuses
    THEN IF res = "running" THEN "return" ELSE "SandboxError"
    ELSE IF el >= deadline THEN "SandboxStartTimeoutError" ELSE "sleep"

(* Mutant: a running container is not recognised as ready *)
PollBodyNeverReady(res, el, deadline) ==
    IF res \in Statuses
    THEN IF res \in {"exited", "dead"} THEN "SandboxError" ELSE "sleep"
    ELSE IF el >= deadline THEN "SandboxStartTimeoutError" ELSE "sleep"

(* One pass of the loop body after the probe answered `res` at `el` ticks: *)
(* "return", "sleep", or the exception that leaves the poller. *)
PollBody(res, el, deadline) ==
    IF res \in Statuses
    THEN IF res = "running" THEN "return"
         ELSE IF TerminalStatus(res) THEN PollExcept("SandboxError", el, deadline)
         ELSE "sleep"
    ELSE PollExcept(res, el, deadline)

(* `while time.time() - start_time < timeout` *)
PollContinue(el, deadline) == el < deadline

(* The deadline of the poller call in progress, in ticks *)
Deadline == TicksPerSecond * op.timeout[1]

InPoller == pc \in {"poll_test", "poll_probe", "poll_sleep"}

----------------------------------------------------------------------------
(* Mutant: stop returns without stopping a running container *)
StopContainerNoEffect(st, fault) ==
    LET exc == IF st = "absent" THEN "NotFound" ELSE fault
    IN  IF exc = "none"
        THEN [exc |-> "none", status |-> st, cause |-> "none"]
        ELSE [exc |-> "SandboxError", status |-> st, cause |-> exc]

(* Mutant: stop refuses a container that is not running *)
StopContainerOnlyRunning(st, fault) ==
    IF st = "running" /\ fault = "none"
    THEN [exc |-> "none", status |-> "exited", cause |-> "none"]
    ELSE [exc |-> "SandboxError", status |-> st, cause |-> "APIError"]

(* DockerSandbox.stop: _stop_container on the worker pool, for a container *)
(* the platform holds with status `st` ("absent": it holds none) and the   *)
(* platform fault `fault`.  Result: the exception leaving stop and the     *)
(* container's status afterwards. *)

StopContainer(st, fault) ==
    LET exc == IF st = "absent" THEN "NotFound" ELSE fault
    IN  IF exc = "none"
        THEN [exc |-> "none", status |-> IF st = "running" THEN "exited" ELSE st,
              cause |-> "none"]
        ELSE IF IsInstance(exc, "NotFound")
        THEN [exc |-> "SandboxError", status |-> st, cause |-> exc]
        ELSE IF IsInstance(exc, "APIError")
        THEN [exc |-> "SandboxError", status |-> st, cause |-> exc]
        ELSE [exc |-> exc, status |-> st, cause |-> exc]

(* Mutant: stop acts on every container of the platform *)
StopTargetsAll(h) == DOMAIN status

(* the containers `self.client.containers.get(container_id)` hands to stop *)
StopTargets(h) == {h}

----------------------------------------------------------------------------
(* DockerSandbox.execute *)

ApiText == "APIError text"      \* str(e) of a platform API error

(* Mutant: combined-only output is attributed to stderr *)
AttributeCombinedToStderr(output) ==
    IF output.shape = "pair"
    THEN << IF output.out # NoneBytes THEN output.out ELSE "",
            IF output.err # NoneBytes THEN output.err ELSE "" >>
    ELSE << "", IF output.out # NoneBytes THEN output.out ELSE "" >>

(* The attribution of exec_run's output to (stdout, stderr) *)
Attribute(output) ==
    IF output.shape = "pair"
    THEN << IF output.out # NoneBytes THEN output.out ELSE "",
            IF output.err # NoneBytes THEN output.err ELSE "" >>
    ELSE << IF output.out # NoneBytes THEN output.out ELSE "", "" >>

(* Mutant: the not-found clause is missing and the API-error clause re-raises *)
ExecCommandRaises(st, fault, res) ==
    LET exc == IF fault # "none" THEN fault
               ELSE IF st = "absent" THEN "NotFound"
               ELSE IF st # "running" THEN "APIError"
               ELSE "none"
    IN  IF exc = "none"
        THEN [exc |-> "none", cause |-> "none",
              val |-> <<res.exit_code>> \o Attribute(res.output)]
        ELSE [exc |-> exc, cause |-> exc, val |-> <<>>]

(* _exec_command, the blocking call: for a container of status `st`, the   *)
(* platform fault `fault` and, when the command runs, the platform's       *)
(* answer `res`.  exec_run on a container that is not running is refused   *)
(* by the platform with an API error. *)
ExecCommand(st, fault, res) ==
    LET exc == IF fault # "none" THEN fault
               ELSE IF st = "absent" THEN "NotFound"
               ELSE IF st # "running" THEN "APIError"
               ELSE "none"
    IN  IF exc = "none"
        THEN [exc |-> "none", cause |-> "none",
              val |-> <<res.exit_code>> \o Attribute(res.output)]
        ELSE IF IsInstance(exc, "NotFound")
        THEN [exc |-> "none", cause |-> exc, val |-> <<1, "", "Container not found">>]
        ELSE IF IsInstance(exc, "APIError")
        THEN [exc |-> "none", cause |-> exc, val |-> <<1, "", ApiText>>]
        ELSE [exc |-> exc, cause |-> exc, val |-> <<>>]

(* Mutant: a fired deadline kills the container *)
ExecStatusAfterKilled(st, timedOut) == IF timedOut /\ st = "running" THEN "exited" ELSE st

(* the container's status once execute has ended: execute only calls      *)
(* containers.get and exec_run, on the deadline too *)
ExecStatusAfter(st, timedOut) == st

(* Mutant: every closure reads the container_id of the latest get_executor *)
BoundHandleLatest(i) == executors[Len(executors)]

(* base.py get_executor: the container_id the i-th closure captured *)
BoundHandle(i) == executors[i]

(* Mutant: the call is awaited without a deadline *)
ExecNeverArmed(t) == FALSE

(* `if timeout and timeout > 0` *)
ExecDeadlineArmed(t) == t # None /\ t[1] # 0 /\ t[1] > 0

(* The except clauses around the awaited call *)
ExecuteHandler(exc) ==
    IF IsInstance(exc, "TimeoutError") THEN "SandboxExecuteTimeoutError"
    ELSE IF IsInstance(exc, "Exception") THEN "SandboxError"
    ELSE exc

ExecDeadline == TicksPerSecond * op.timeout[1]

----------------------------------------------------------------------------
(* Inputs *)

(* start's timeouts in seconds.  None and 0 (the 30 s default, a poll of  *)
(* 60 ticks) are accepted by StartCall but not drawn here. *)
StartTimeouts == {Some(1), Some(-1)}
ExecTimeouts == {None, Some(0), Some(-1), Some(1)}
ExecFaults == {"none", "APIError", "TimeoutError", "DockerException"}
ExitCodes == {0, 2}
ExecOutputs ==
    { [shape |-> "pair", out |-> "o", err |-> NoneBytes],
      [shape |-> "combined", out |-> "oe", err |-> NoneBytes] }
WaitTimeouts == {0, 1}
HandleArgs == DOMAIN status \cup {Bogus}
ApiFaults == {"none", "APIError"}
BuildFaults == {"none", "BuildError", "APIError"}
ProbeLatencies == 0..MaxProbeLatency
(* probes that may block for longer than a deadline of one second *)
LongProbeLatencies == 0..(MaxProbeLatency + TicksPerSecond)
(* the time the image build and the container launch take: none, or more  *)
(* than the default deadline of start *)
SetupLatencies == {0}
LongSetupLatencies == {0, TicksPerSecond * DEFAULT_START_TIMEOUT + 1}
(* start's default timeout, by omission or by 0, and a given one *)
DefaultTimeouts == {None, Some(0), Some(1)}
StartEnvs == {None}
ExpireSeconds == {DEFAULT_EXPIRE_SECONDS}
Commands == {"cmd"}
AnyOutput == "any"              \* a command that may write to either stream, or to none
(* every shape of exec_run's output: a (stdout, stderr) pair with either   *)
(* stream absent, or combined-only bytes, or nothing *)
AllOutputs ==
    { [shape |-> "pair", out |-> o, err |-> e] : o \in {NoneBytes, "o"}, e \in {NoneBytes, "e"} }
    \cup { [shape |-> "combined", out |-> o, err |-> NoneBytes] : o \in {NoneBytes, "oe"} }
ReadVar == "echo $CONTAINER"    \* the command of the tests that reads a variable back
EnvVar == "CONTAINER"

(* what the platform answers when `command` runs in container h: the shell *)
(* expands a variable from the environment the container was launched with *)
CommandResults(h, command) ==
    IF command = ReadVar
    THEN { [exit_code |-> 0,
            output |-> [shape |-> "pair",
                        out |-> IF h \in DOMAIN env /\ EnvVar \in DOMAIN env[h]
                                THEN env[h][EnvVar] ELSE "",
                        err |-> NoneBytes]] }
    ELSE IF command = AnyOutput
    THEN { [exit_code |-> c, output |-> o] : c \in ExitCodes, o \in AllOutputs }
    ELSE { [exit_code |-> c, output |-> o] : c \in ExitCodes, o \in ExecOutputs }

----------------------------------------------------------------------------
(* State machine *)

Init ==
    /\ autoBuild \in BOOLEAN
    /\ imagePresent \in BOOLEAN
    /\ client = FALSE
    /\ made = 0
    /\ clientRef = 0
    /\ wk = [w \in Workers |-> IdleWorker]
    /\ status = [h \in Ids |-> "absent"]
    /\ used = {}
    /\ pc = "idle"
    /\ op = NoOp
    /\ calls = {}
    /\ elapsed = 0
    /\ pstatus = "none"
    /\ sawFail = FALSE
    /\ sawStatus = FALSE
    /\ outcome = NoOutcome
    /\ stopped = {}
    /\ abandoned = 0
    /\ env = [h \in Ids |-> NoEnv]
    /\ peer = NoPeer
    /\ other = NoOther
    /\ executors = <<>>

Config == <<autoBuild>>
Aux == <<env, peer, executors, wk, other>>
ClientState == <<client, made, clientRef>>

(* the `client` property read by one caller at a time: `if self._client is *)
(* None: self._client = docker.from_env()` *)
UseClient ==
    /\ client' = TRUE
    /\ made' = IF client THEN made ELSE made + 1
    /\ clientRef' = IF client THEN clientRef ELSE made + 1

(* Entry of any call: fresh locals *)
Begin(o) ==
    /\ pc = "idle"
    /\ op' = o
    /\ calls' = {}
    /\ elapsed' = 0
    /\ pstatus' = "none"
    /\ sawFail' = FALSE
    /\ sawStatus' = FALSE

Finish(out) ==
    /\ pc' = "idle"
    /\ outcome' = out

(* start(working_dir, environment, timeout, expire_seconds), up to its     *)
(* first await *)
StartCall(d, t, e, x) ==
    /\ Begin([NoOp EXCEPT !.name = "start", !.dirExists = d, !.arg = t,
                          !.environment = e, !.expire_seconds = x,
                          !.imgBefore = imagePresent])
    /\ pc' = IF autoBuild THEN "build" ELSE "launch"
    /\ outcome' = NoOutcome
    /\ UNCHANGED <<Config, Aux, ClientState, imagePresent, status, used, stopped, abandoned>>

(* start: `await run_in_threadpool(self.build)`, which takes `lat` ticks;   *)
(* an exception of build leaves start unchanged, there is no handler       *)
(* around it *)
StartBuild(lat) ==
    /\ pc = "build"
    /\ op' = [op EXCEPT !.before = @ + lat]
    /\ \E dfile \in BOOLEAN, gf \in ApiFaults, bf \in BuildFaults :
         LET r == Build(imagePresent, dfile, gf, bf)
         IN  /\ imagePresent' = r.image
             /\ calls' = calls \cup r.calls
             /\ IF r.exc = "none"
                THEN pc' = "launch" /\ outcome' = outcome
                ELSE Finish(Raised("start", r.exc, "build", 0, r.exc))
    /\ UseClient
    /\ UNCHANGED <<Config, Aux, status, used, elapsed, pstatus, sawFail, sawStatus,
                   stopped, abandoned>>

(* start: `await self._start_container(...)`, which takes `lat` ticks,     *)
(* then the entry of _wait_for_ready with `timeout or 30`                  *)
(* (start_time = time.time()) *)
StartLaunch(lat) ==
    /\ pc = "launch"
    /\ \E f \in ApiFaults :
         LET r == RunContainer(op.dirExists, imagePresent, f)
         IN  /\ calls' = calls \cup r.calls
             /\ IF r.calls # {} THEN UseClient ELSE UNCHANGED ClientState
             /\ IF r.exc # "none"
                THEN /\ Finish(Raised("start", r.exc, r.stage, 0, r.cause))
                     /\ op' = [op EXCEPT !.before = @ + lat]
                     /\ UNCHANGED <<status, used, env>>
                ELSE \E h \in {FreshId}, s \in {"created", "running"} :
                       /\ h \in DOMAIN status
                       /\ status' = [status EXCEPT ![h] = s]
                       /\ env' = [env EXCEPT
                                    ![h] = ContainerEnv(op.environment, op.expire_seconds)]
                       /\ used' = used \cup {h}
                       /\ op' = [op EXCEPT !.h = h, !.before = @ + lat,
                                           !.timeout = Some(StartTimeout(op.arg))]
                       /\ pc' = "poll_test"
                       /\ outcome' = outcome
    /\ UNCHANGED <<Config, peer, executors, wk, other, imagePresent, elapsed, pstatus,
                   sawFail, sawStatus, stopped, abandoned>>

(* _wait_for_ready called on its own, as the tests do *)
WaitCall(h, t) ==
    /\ Begin([NoOp EXCEPT !.name = "wait", !.h = h, !.arg = Some(t), !.timeout = Some(t)])
    /\ pc' = "poll_test"
    /\ outcome' = NoOutcome
    /\ UNCHANGED <<Config, Aux, ClientState, imagePresent, status, used, stopped, abandoned>>

(* the while test; falling out of the loop raises SandboxStartTimeoutError *)
PollTest ==
    /\ pc = "poll_test"
    /\ IF PollContinue(elapsed, Deadline)
       THEN pc' = "poll_probe" /\ outcome' = outcome
       ELSE Finish(Raised(op.name, "SandboxStartTimeoutError", "deadline", elapsed, "none"))
    /\ UNCHANGED <<Config, Aux, ClientState, imagePresent, status, used, op, calls, elapsed,
                   pstatus, sawFail, sawStatus, stopped, abandoned>>

(* `status = await run_in_threadpool(_check_status)` and the branches on it *)
PollProbe(lat) ==
    /\ pc = "poll_probe"
    /\ \E f \in ApiFaults :
         LET el == elapsed + lat
             res == CheckStatus(op.h, f)
             b == PollBody(res, el, Deadline)
         IN  /\ elapsed' = el
             /\ pstatus' = res
             /\ sawFail' = (sawFail \/ res \notin Statuses)
             /\ sawStatus' = (sawStatus \/ res \in Statuses)
             /\ op' = [op EXCEPT !.sleeps = 0, !.lastProbe = el]
             /\ IF b = "return"
                THEN Finish(Returned(op.name, IF op.name = "start" THEN op.h ELSE NoHandle,
                                     <<>>, el))
                ELSE IF b = "sleep"
                THEN pc' = "poll_sleep" /\ outcome' = outcome
                ELSE Finish(Raised(op.name, b, "poll", el, res))
    /\ calls' = calls \cup {"containers.get"}
    /\ UseClient
    /\ UNCHANGED <<Config, env, peer, executors, wk, other, imagePresent, status, used, stopped,
                   abandoned>>

(* Mutant: the retry goes back to the loop test without sleeping *)
PollSleepSkipped ==
    /\ pc = "poll_sleep"
    /\ pc' = "poll_test"
    /\ UNCHANGED <<Config, Aux, ClientState, imagePresent, status, used, op, calls, elapsed,
                   pstatus, sawFail, sawStatus, outcome, stopped, abandoned>>

(* `await asyncio.sleep(0.5)` *)
PollSleep ==
    /\ pc = "poll_sleep"
    /\ elapsed' = elapsed + Interval
    /\ op' = [op EXCEPT !.sleeps = @ + 1]
    /\ pc' = "poll_test"
    /\ UNCHANGED <<Config, Aux, ClientState, imagePresent, status, used, calls, pstatus,
                   sawFail, sawStatus, outcome, stopped, abandoned>>

(* the platform's containers once _stop_container(h) has run *)
StopStatus(h, f) ==
    [g \in DOMAIN status |->
        IF g \in StopTargets(h) THEN StopContainer(status[g], f).status ELSE status[g]]

(* the platform's containers once an execute on h has ended *)
ExecStatus(h, timedOut) ==
    [g \in DOMAIN status |->
        IF g = h THEN ExecStatusAfter(status[g], timedOut) ELSE status[g]]

(* stop(container_id) *)
StopCall(h) ==
    /\ pc = "idle"
    /\ \E f \in ApiFaults :
         LET r == StopContainer(StatusOf(h), f)
         IN  /\ Begin([NoOp EXCEPT !.name = "stop", !.h = h, !.again = (h \in stopped),
                                   !.pre = StatusOf(h), !.fault = f,
                                   !.afterStart = /\ outcome.op = "start"
                                                  /\ outcome.kind = "ok"
                                                  /\ outcome.h = h])
             /\ status' = StopStatus(h, f)
             /\ IF r.exc = "none"
                THEN /\ Finish(Returned("stop", NoHandle, <<r.status>>, 0))
                     /\ stopped' = stopped \cup {h}
                ELSE /\ Finish(Raised("stop", r.exc, "stop", 0, r.cause))
                     /\ stopped' = stopped
    /\ UseClient
    /\ UNCHANGED <<Config, Aux, imagePresent, used, abandoned>>

(* The platform on its own: a created container starts or fails, a running *)
(* one exits, and a stopped one is removed (auto_remove=True). *)
PlatformStep(h) ==
    /\ \/ status[h] = "created" /\ \E s \in {"running", "exited", "dead"} :
                                      status' = [status EXCEPT ![h] = s]
       \/ status[h] = "running" /\ status' = [status EXCEPT ![h] = "exited"]
       \/ status[h] \in {"exited", "dead"} /\ status' = [status EXCEPT ![h] = "absent"]
    /\ UNCHANGED <<Config, Aux, ClientState, imagePresent, used, pc, op, calls, elapsed, pstatus,
                   sawFail, sawStatus, outcome, stopped, abandoned>>

(* execute(container_id, command, timeout), up to its await: the blocking *)
(* call is handed to the worker pool *)
ExecCall(h, t, command, via) ==
    /\ Begin([NoOp EXCEPT !.name = "execute", !.h = h, !.arg = t, !.timeout = t,
                          !.command = command, !.via = via])
    /\ ExecDeadlineArmed(t) => abandoned < MaxAbandoned
    /\ pc' = "exec_wait"
    /\ outcome' = NoOutcome
    /\ UNCHANGED <<Config, Aux, ClientState, imagePresent, status, used, stopped, abandoned>>

(* time passes while the caller awaits; an armed deadline cannot be passed *)
ExecTick ==
    /\ pc = "exec_wait"
    /\ IF ExecDeadlineArmed(op.timeout)
       THEN elapsed < ExecDeadline
       ELSE elapsed < MaxExecLatency
    /\ elapsed' = elapsed + 1
    /\ UNCHANGED <<Config, Aux, ClientState, imagePresent, status, used, pc, op, calls, pstatus,
                   sawFail, sawStatus, outcome, stopped, abandoned>>

(* the blocking call completes while the caller still awaits it *)
ExecFinish ==
    /\ pc = "exec_wait"
    /\ \E f \in ExecFaults, res \in CommandResults(op.h, op.command) :
         LET r == ExecCommand(StatusOf(op.h), f, res)
         IN  IF r.exc = "none"
             THEN Finish([Returned("execute", NoHandle, r.val, elapsed)
                            EXCEPT !.cause = r.cause,
                                   !.raw = IF r.cause = "none" THEN res ELSE NoRaw])
             ELSE Finish(Raised("execute", ExecuteHandler(r.exc), "call", elapsed, r.exc))
    /\ status' = ExecStatus(op.h, FALSE)
    /\ calls' = calls \cup {"containers.get"}
    /\ UseClient
    /\ UNCHANGED <<Config, Aux, imagePresent, used, op, elapsed, pstatus, sawFail,
                   sawStatus, stopped, abandoned>>

(* the deadline of asyncio.wait_for fires first: TimeoutError reaches the *)
(* except clauses, and the blocking call is left running on the worker pool *)
ExecTimerFire ==
    /\ pc = "exec_wait"
    /\ ExecDeadlineArmed(op.timeout)
    /\ elapsed >= ExecDeadline
    /\ Finish(Raised("execute", ExecuteHandler("TimeoutError"), "timer", elapsed,
                     "TimeoutError"))
    /\ abandoned' = abandoned + 1
    /\ status' = ExecStatus(op.h, TRUE)
    /\ UNCHANGED <<Config, Aux, ClientState, imagePresent, used, op, calls, elapsed,
                   pstatus, sawFail, sawStatus, stopped>>

(* an abandoned blocking call completes in the background *)
AbandonedFinish ==
    /\ abandoned > 0
    /\ abandoned' = abandoned - 1
    /\ UseClient
    /\ UNCHANGED <<Config, Aux, imagePresent, status, used, pc, op, calls, elapsed, pstatus,
                   sawFail, sawStatus, outcome, stopped>>

(* get_executor(container_id): a closure over container_id; no await, no *)
(* backend call *)
GetExecutor(h) ==
    /\ pc = "idle"
    /\ Len(executors) < MaxExecutors
    /\ executors' = Append(executors, h)
    /\ UNCHANGED <<Config, ClientState, imagePresent, status, used, pc, op, calls, elapsed,
                   pstatus, sawFail, sawStatus, outcome, stopped, abandoned, env, peer,
                   wk, other>>

(* executor(command, timeout) of the i-th closure:                         *)
(* `return await self.execute(container_id, command, timeout)` *)
ExecutorCall(i, t, command) ==
    /\ i \in 1..Len(executors)
    /\ ExecCall(BoundHandle(i), t, command, i)

(* A second caller of the same instance, on another handle than the call   *)
(* in progress: its stop, run on the worker pool while the first awaits *)
PeerStop(g) ==
    /\ pc # "idle"
    /\ g \in DOMAIN status
    /\ g # op.h
    /\ \E f \in ApiFaults :
         LET r == StopContainer(StatusOf(g), f)
         IN  /\ status' = StopStatus(g, f)
             /\ stopped' = IF r.exc = "none" THEN stopped \cup {g} ELSE stopped
             /\ peer' = [op |-> "stop", h |-> g, val |-> <<>>]
    /\ UseClient
    /\ UNCHANGED <<Config, imagePresent, used, pc, op, calls, elapsed, pstatus, sawFail,
                   sawStatus, outcome, abandoned, env, executors, wk, other>>

(* the second caller's execute, awaited without a deadline *)
PeerExec(g, command) ==
    /\ pc # "idle"
    /\ g \in DOMAIN status
    /\ g # op.h
    /\ \E f \in ExecFaults, res \in CommandResults(g, command) :
         LET r == ExecCommand(StatusOf(g), f, res)
         IN  peer' = [op |-> "execute", h |-> g, val |-> r.val]
    /\ status' = ExecStatus(g, FALSE)
    /\ UseClient
    /\ UNCHANGED <<Config, imagePresent, used, pc, op, calls, elapsed, pstatus, sawFail,
                   sawStatus, outcome, stopped, abandoned, env, executors,
                   wk, other>>

(* Mutant: an instance finds only the containers it has started itself *)
LookupOwnOnly(inst, h) == IF inst = 1 THEN h ELSE Bogus

(* `self.client.containers.get(container_id)` of instance `inst`: every     *)
(* client comes from docker.from_env(), and the platform resolves the id   *)
Lookup(inst, h) == h

OtherFrame ==
    UNCHANGED <<Config, ClientState, imagePresent, used, pc, op, calls, elapsed, pstatus,
                sawFail, sawStatus, outcome, abandoned, env, peer, executors, wk>>

(* stop(h) on a second DockerSandbox instance, between the calls of the    *)
(* first *)
OtherStop(h) ==
    /\ pc = "idle"
    /\ \E f \in ApiFaults :
         LET g == Lookup(2, h)
             r == StopContainer(StatusOf(g), f)
         IN  /\ status' = StopStatus(g, f)
             /\ stopped' = IF r.exc = "none" THEN stopped \cup {g} ELSE stopped
             /\ other' = [ client |-> TRUE, op |-> "stop", h |-> h, pre |-> StatusOf(h),
                           fault |-> f,
                           kind |-> IF r.exc = "none" THEN "ok" ELSE r.exc,
                           val |-> IF r.exc = "none" THEN <<r.status>> ELSE <<>>,
                           cause |-> r.cause ]
    /\ OtherFrame

(* execute(h, command) on the second instance, awaited without a deadline *)
OtherExec(h, command) ==
    /\ pc = "idle"
    /\ LET g == Lookup(2, h)
       IN  /\ \E f \in ExecFaults, res \in CommandResults(g, command) :
                LET r == ExecCommand(StatusOf(g), f, res)
                IN  other' = [ client |-> TRUE, op |-> "execute", h |-> h,
                               pre |-> StatusOf(h), fault |-> f,
                               kind |-> IF r.exc = "none" THEN "ok"
                                        ELSE ExecuteHandler(r.exc),
                               val |-> r.val,
                               cause |-> r.cause ]
           /\ status' = ExecStatus(g, FALSE)
    /\ stopped' = stopped
    /\ OtherFrame

(* Blocking calls of several operations of the instance, on distinct       *)
(* handles, run on the worker pool at the same time; each reads the        *)
(* `client` property, whose test, assignment and return are separate steps *)
(* of its thread.                                                          *)
WorkerFrame ==
    UNCHANGED <<Config, imagePresent, status, used, pc, op, calls, elapsed, pstatus,
                sawFail, sawStatus, outcome, stopped, abandoned, env, peer, executors,
                other>>

(* run_in_threadpool(f): f starts on a worker thread *)
WorkerEnter(w, f) ==
    /\ wk[w].pc = "idle"
    /\ wk' = [wk EXCEPT ![w] = [pc |-> "test", call |-> f, uses |-> 0]]
    /\ UNCHANGED ClientState
    /\ WorkerFrame

(* `if self._client is None` *)
WorkerTest(w) ==
    /\ wk[w].pc = "test"
    /\ wk' = [wk EXCEPT ![w].pc = IF client THEN "return" ELSE "create"]
    /\ UNCHANGED ClientState
    /\ WorkerFrame

(* `self._client = docker.from_env()` *)
WorkerCreate(w) ==
    /\ wk[w].pc = "create"
    /\ made' = made + 1
    /\ clientRef' = made + 1
    /\ client' = TRUE
    /\ wk' = [wk EXCEPT ![w].pc = "return"]
    /\ WorkerFrame

(* `return self._client`, and the platform call made on it *)
WorkerReturn(w) ==
    /\ wk[w].pc = "return"
    /\ wk' = [wk EXCEPT ![w].pc = "idle", ![w].uses = clientRef]
    /\ UNCHANGED ClientState
    /\ WorkerFrame

Next ==
    \/ \E d \in BOOLEAN, t \in StartTimeouts, e \in StartEnvs, x \in ExpireSeconds :
         StartCall(d, t, e, x)
    \/ \E lat \in SetupLatencies : StartBuild(lat)
    \/ \E lat \in SetupLatencies : StartLaunch(lat)
    \/ \E h \in HandleArgs, t \in WaitTimeouts : WaitCall(h, t)
    \/ PollTest
    \/ \E lat \in ProbeLatencies : PollProbe(lat)
    \/ PollSleep
    \/ \E h \in HandleArgs : StopCall(h)
    \/ \E h \in HandleArgs, t \in ExecTimeouts, c \in Commands : ExecCall(h, t, c, 0)
    \/ ExecTick
    \/ ExecFinish
    \/ ExecTimerFire
    \/ AbandonedFinish
    \/ \E h \in DOMAIN status : PlatformStep(h)

Spec == Init /\ [][Next]_vars

(* start and the readiness poller alone, against a platform whose probes   *)
(* may block for longer than the deadline *)
NextPoll ==
    \/ \E d \in BOOLEAN, t \in StartTimeouts, e \in StartEnvs, x \in ExpireSeconds :
         StartCall(d, t, e, x)
    \/ \E lat \in SetupLatencies : StartBuild(lat)
    \/ \E lat \in SetupLatencies : StartLaunch(lat)
    \/ \E h \in HandleArgs, t \in WaitTimeouts : WaitCall(h, t)
    \/ PollTest
    \/ \E lat \in LongProbeLatencies : PollProbe(lat)
    \/ PollSleep
    \/ \E h \in DOMAIN status : PlatformStep(h)

SpecPoll == Init /\ [][NextPoll]_vars

(* Two environments of one instance (test_stateless_behavior): the image  *)
(* exists, each start injects its own value of CONTAINER, and a second     *)
(* caller stops and executes on the other handle while a call is awaited   *)
TwoIds == {IdOf(1), IdOf(2)}
TwoEnvs == {Some([CONTAINER |-> "1"]), Some([CONTAINER |-> "2"])}

InitTwo ==
    /\ autoBuild = FALSE
    /\ imagePresent = TRUE
    /\ client = FALSE
    /\ made = 0
    /\ clientRef = 0
    /\ wk = [w \in Workers |-> IdleWorker]
    /\ status = [h \in TwoIds |-> "absent"]
    /\ used = {}
    /\ pc = "idle"
    /\ op = NoOp
    /\ calls = {}
    /\ elapsed = 0
    /\ pstatus = "none"
    /\ sawFail = FALSE
    /\ sawStatus = FALSE
    /\ outcome = NoOutcome
    /\ stopped = {}
    /\ abandoned = 0
    /\ env = [h \in TwoIds |-> NoEnv]
    /\ peer = NoPeer
    /\ other = NoOther
    /\ executors = <<>>

NextTwo ==
    \/ \E e \in TwoEnvs, x \in ExpireSeconds : StartCall(TRUE, Some(1), e, x)
    \/ \E lat \in SetupLatencies : StartLaunch(lat)
    \/ PollTest
    \/ \E lat \in ProbeLatencies : PollProbe(lat)
    \/ PollSleep
    \/ \E h \in TwoIds : StopCall(h)
    \/ \E h \in TwoIds : ExecCall(h, None, ReadVar, 0)
    \/ ExecTick
    \/ ExecFinish
    \/ \E h \in TwoIds : PlatformStep(h)
    \/ \E g \in TwoIds : PeerStop(g)
    \/ \E g \in TwoIds : PeerExec(g, ReadVar)

SpecTwo == InitTwo /\ [][NextTwo]_vars

(* start over the environment maps a caller can pass: any subset of the    *)
(* two injected keys and one key of its own *)
EnvKeys == {"EXPIRE_SECONDS", "SHELL", EnvVar}
EnvValues == {"1"}
CallerEnvs ==
    {None} \cup {Some(m) : m \in UNION {[K -> EnvValues] : K \in SUBSET EnvKeys}}
ExpireInputs == {DEFAULT_EXPIRE_SECONDS, 60, -1}

InitEnv == Init /\ ~autoBuild /\ imagePresent

NextEnv ==
    \/ \E e \in CallerEnvs, x \in ExpireInputs : StartCall(TRUE, Some(-1), e, x)
    \/ \E lat \in SetupLatencies : StartLaunch(lat)
    \/ PollTest

SpecEnv == InitEnv /\ [][NextEnv]_vars

(* execute called directly and through the closures of get_executor, on   *)
(* two environments *)
ExecutorTimeouts == {None, Some(1)}

NextExecutor ==
    \/ \E x \in ExpireSeconds : StartCall(TRUE, Some(1), None, x)
    \/ \E lat \in SetupLatencies : StartLaunch(lat)
    \/ PollTest
    \/ \E lat \in ProbeLatencies : PollProbe(lat)
    \/ PollSleep
    \/ \E h \in TwoIds : GetExecutor(h)
    \/ \E i \in 1..MaxExecutors, t \in ExecutorTimeouts, c \in Commands :
         ExecutorCall(i, t, c)
    \/ \E h \in TwoIds, t \in ExecutorTimeouts, c \in Commands : ExecCall(h, t, c, 0)
    \/ ExecTick
    \/ ExecFinish
    \/ ExecTimerFire
    \/ AbandonedFinish
    \/ \E h \in DOMAIN status : PlatformStep(h)

SpecExecutor == InitTwo /\ [][NextExecutor]_vars

(* execute on a started environment, over every shape of the platform's   *)
(* output *)
NextAttr ==
    \/ \E x \in ExpireSeconds : StartCall(TRUE, Some(1), None, x)
    \/ \E lat \in SetupLatencies : StartBuild(lat)
    \/ \E lat \in SetupLatencies : StartLaunch(lat)
    \/ PollTest
    \/ \E lat \in ProbeLatencies : PollProbe(lat)
    \/ PollSleep
    \/ \E h \in HandleArgs : ExecCall(h, None, AnyOutput, 0)
    \/ ExecTick
    \/ ExecFinish
    \/ \E h \in DOMAIN status : PlatformStep(h)

SpecAttr == Init /\ [][NextAttr]_vars

(* Two DockerSandbox instances on one platform: the first starts the      *)
(* environments, and stop and execute reach them through either instance  *)
NextOther ==
    \/ \E x \in ExpireSeconds : StartCall(TRUE, Some(1), None, x)
    \/ \E lat \in SetupLatencies : StartLaunch(lat)
    \/ PollTest
    \/ \E lat \in ProbeLatencies : PollProbe(lat)
    \/ PollSleep
    \/ \E h \in DOMAIN status : StopCall(h)
    \/ \E h \in DOMAIN status : ExecCall(h, None, ReadVar, 0)
    \/ ExecFinish
    \/ \E h \in DOMAIN status : PlatformStep(h)
    \/ \E h \in DOMAIN status : OtherStop(h)
    \/ \E h \in DOMAIN status : OtherExec(h, ReadVar)

SpecOther == InitEnv /\ [][NextOther]_vars

(* start alone, with its default timeout, on a platform whose build and   *)
(* launch may take longer than the deadline *)
NextDefault ==
    \/ \E d \in BOOLEAN, t \in DefaultTimeouts, e \in StartEnvs, x \in ExpireSeconds :
         StartCall(d, t, e, x)
    \/ \E lat \in LongSetupLatencies : StartBuild(lat)
    \/ \E lat \in LongSetupLatencies : StartLaunch(lat)
    \/ PollTest
    \/ \E lat \in ProbeLatencies : PollProbe(lat)
    \/ PollSleep
    \/ \E h \in DOMAIN status : PlatformStep(h)

SpecDefault == Init /\ [][NextDefault]_vars

(* the first uses of the client by operations running at the same time *)
BlockingCalls == {"_stop_container", "_exec_command", "_check_status"}

NextClient ==
    \/ \E w \in Workers, f \in BlockingCalls : WorkerEnter(w, f)
    \/ \E w \in Workers : WorkerTest(w)
    \/ \E w \in Workers : WorkerCreate(w)
    \/ \E w \in Workers : WorkerReturn(w)

SpecClient == Init /\ [][NextClient]_vars

(* every probe returns and the clock advances: a poller call in progress   *)
(* takes its next step *)
FairPoll ==
    /\ SpecPoll
    /\ WF_vars(PollTest)
    /\ WF_vars(\E lat \in LongProbeLatencies : PollProbe(lat))
    /\ WF_vars(PollSleep)

----------------------------------------------------------------------------
(* Claims *)

PollOps == {"start", "wait"}
Done(name) == pc = "idle" /\ outcome.op = name

(* C1: with auto_build on and the image absent, every failure of the image *)
(* build done by start (build error, API error during the build, missing   *)
(* Dockerfile) reaches the caller of start as SandboxError or a subtype.   *)
C1_BuildFailureIsSandboxError ==
    ( /\ Done("start")
      /\ autoBuild
      /\ outcome.stage = "build"
      /\ ("images.build" \in calls \/ outcome.kind = "FileNotFoundError") )
    => IsSandboxError(outcome.kind)

(* C2: for a working_dir that does not exist, whatever auto_build is,      *)
(* start raises SandboxError and makes no backend call during that call.   *)
C2_MissingDirNoBackendCall ==
    /\ (op.name = "start" /\ ~op.dirExists) => calls = {}
    /\ (Done("start") /\ ~op.dirExists) => IsSandboxError(outcome.kind)

(* C3: execute with a positive timeout T never keeps its caller past T;    *)
(* when the deadline fires the caller gets SandboxExecuteTimeoutError at   *)
(* T, and the blocking call is still in flight on the worker pool at that  *)
(* moment (abandoned, not awaited). *)
PositiveTimeout(t) == t # None /\ t[1] > 0

C3_Released ==
    /\ (pc = "exec_wait" /\ PositiveTimeout(op.timeout))
         => elapsed <= TicksPerSecond * op.timeout[1]
    /\ (Done("execute") /\ outcome.stage = "timer")
         => /\ PositiveTimeout(op.timeout)
            /\ outcome.kind = "SandboxExecuteTimeoutError"
            /\ outcome.at = TicksPerSecond * op.timeout[1]

C3_ReleasedAtDeadline ==
    /\ []C3_Released
    /\ [][(pc = "exec_wait" /\ pc' = "idle" /\ outcome'.stage = "timer")
            => abandoned' = abandoned + 1]_vars

(* C3 witness: the caller was released by the deadline, and the abandoned  *)
(* call has since completed in the background. *)
C3_Witness ==
    /\ Done("execute")
    /\ outcome.stage = "timer"
    /\ outcome.kind = "SandboxExecuteTimeoutError"
    /\ abandoned = 0

(* C4: when the platform answers execute with container-not-found or an    *)
(* API error (also for an id that never existed), execute returns a result *)
(* with a non-zero exit code, empty stdout and the fault text in stderr.   *)
C4_PlatformFaultIsResult ==
    (Done("execute") /\ outcome.cause \in {"NotFound", "APIError"})
    => /\ outcome.kind = "ok"
       /\ Len(outcome.val) = 3
       /\ outcome.val[1] # 0
       /\ outcome.val[2] = ""
       /\ outcome.val[3] = (IF outcome.cause = "NotFound"
                            THEN "Container not found" ELSE ApiText)
       /\ outcome.val[3] # ""

C4_Witness ==
    /\ Done("execute")
    /\ op.h = Bogus
    /\ outcome.cause = "NotFound"
    /\ outcome.kind = "ok"

(* C5: every execute call ends with a returned triple,                     *)
(* SandboxExecuteTimeoutError or plain SandboxError, and a fault raised    *)
(* inside the blocking call (other than not-found / API error) is raised   *)
(* as plain SandboxError. *)
C5_ThreeOutcomes ==
    Done("execute")
    => /\ outcome.kind \in {"ok", "SandboxExecuteTimeoutError", "SandboxError"}
       /\ outcome.kind = "ok" => Len(outcome.val) = 3
       /\ outcome.stage = "call" => outcome.kind = "SandboxError"

(* C6: stop on an id that never existed, or on one whose stop has already  *)
(* completed, raises SandboxError. *)
C6_SecondStopRaises ==
    (Done("stop") /\ (op.again \/ op.h \notin used))
    => IsSandboxError(outcome.kind)

(* C7: stop on a container that is running, or that failed during start    *)
(* (exited or dead), completes without raising when the platform serves    *)
(* the call, and leaves the container stopped. *)
C7_StopFromReadyOrFailed ==
    (Done("stop") /\ op.pre \in {"running", "exited", "dead"} /\ op.fault = "none")
    => /\ outcome.kind = "ok"
       /\ outcome.val \in {<<"exited">>, <<"dead">>}

C7_Witness ==
    /\ Done("stop")
    /\ op.pre = "dead"
    /\ ~op.again
    /\ op.fault = "none"
    /\ outcome.kind = "ok"

(* C8: for an existing working_dir, once a readiness probe of start reports *)
(* running, start returns the non-empty id of that running container, and  *)
(* a stop issued on it right away (the platform serving the call)          *)
(* completes without raising. *)
C8_StartThenStop ==
    /\ [][(pc = "poll_probe" /\ op.name = "start" /\ pstatus' = "running")
            => /\ op.dirExists
               /\ pc' = "idle"
               /\ outcome'.kind = "ok"
               /\ outcome'.h \in used
               /\ outcome'.h # NoHandle
               /\ StatusOf(outcome'.h) = "running"]_vars
    /\ [][(/\ Done("start") /\ outcome.kind = "ok"
           /\ StatusOf(outcome.h) = "running"
           /\ op'.name = "stop" /\ op'.h = outcome.h /\ op'.fault = "none")
            => /\ pc' = "idle"
               /\ outcome'.op = "stop"
               /\ outcome'.kind = "ok"]_vars

C8_Witness ==
    /\ Done("stop")
    /\ op.afterStart
    /\ op.pre = "running"
    /\ outcome.kind = "ok"

(* C9: in the readiness poller a probe that reports exited or dead ends    *)
(* the poller at once with plain SandboxError: no probe and no sleep       *)
(* follows, however much of the deadline remains. *)
C9_TerminalStatusFailsAtOnce ==
    (pstatus \in {"exited", "dead"})
    => /\ pc = "idle"
       /\ outcome.op \in PollOps
       /\ outcome.kind = "SandboxError"
       /\ outcome.at = elapsed

C9_Witness ==
    /\ Done("start")
    /\ pstatus = "exited"
    /\ outcome.kind = "SandboxError"
    /\ outcome.at + Interval < TicksPerSecond * op.timeout[1]

(* C10: a probe that fails with not-found or an API error before the       *)
(* deadline is not surfaced: the poller retries, returns success when a    *)
(* later probe reports running, and raises SandboxStartTimeoutError when   *)
(* every probe up to the deadline failed. *)
C10_ProbeFaultsRetried ==
    /\ (pstatus \in {"NotFound", "APIError"} /\ elapsed < TicksPerSecond * op.timeout[1])
         => InPoller
    /\ (~InPoller /\ outcome.op \in PollOps /\ outcome.stage \in {"poll", "deadline"})
         => /\ outcome.kind \in {"ok", "SandboxError", "SandboxStartTimeoutError"}
            /\ outcome.kind = "SandboxError" => outcome.cause \in {"exited", "dead"}
            /\ outcome.cause \in {"NotFound", "APIError"}
                 => /\ outcome.kind = "SandboxStartTimeoutError"
                    /\ outcome.at >= TicksPerSecond * op.timeout[1]
    /\ (pstatus = "running") => (pc = "idle" /\ outcome.kind = "ok")
    /\ (Done("start") \/ Done("wait")) /\ outcome.stage \in {"poll", "deadline", "return"}
         /\ ~sawStatus
         => outcome.kind = "SandboxStartTimeoutError"

C10_Witness ==
    /\ Done("start")
    /\ sawFail
    /\ pstatus = "running"
    /\ outcome.kind = "ok"

(* C11: the poller never returns or raises later than deadline + interval  *)
(* after it was called (deadline >= 0), however long one probe blocks.     *)
C11_ElapsedBounded ==
    ( /\ (Done("start") \/ Done("wait"))
      /\ outcome.stage \in {"poll", "deadline", "return"}
      /\ op.timeout[1] >= 0 )
    => outcome.at <= TicksPerSecond * op.timeout[1] + Interval

(* C12: operations on distinct handles do not interfere.  For two          *)
(* environments of one instance and every interleaving of the calls of two *)
(* callers: a step of a call on one handle changes neither the status nor  *)
(* the environment of another container; the container launched by a       *)
(* start carries that start's value of the injected variable; an execute   *)
(* on a running container is never answered "not found" whatever was       *)
(* stopped meanwhile, and when the command runs it reads back the value    *)
(* the container was launched with.                                        *)
MainStep ==
    pc' # pc \/ op' # op \/ outcome' # outcome \/ elapsed' # elapsed \/ calls' # calls
PeerStep == peer' # peer

C12_DistinctHandlesIndependent ==
    /\ [][\A g \in DOMAIN status :
            ((status'[g] # status[g] \/ env'[g] # env[g]) /\ (MainStep \/ PeerStep))
            => \/ MainStep /\ op'.h = g
               \/ PeerStep /\ peer'.h = g]_vars
    /\ [][(pc = "launch" /\ pc' = "poll_test")
            => /\ op'.h \in DOMAIN env
               /\ env'[op'.h][EnvVar] = op.environment[1][EnvVar]]_vars
    /\ [][(pc = "exec_wait" /\ pc' = "idle" /\ StatusOf(op.h) = "running")
            => /\ outcome'.cause # "NotFound"
               /\ outcome'.cause = "none"
                    => /\ outcome'.kind = "ok"
                       /\ outcome'.val = <<0, env[op.h][EnvVar], "">>]_vars
    /\ [][(PeerStep /\ peer'.op = "execute" /\ StatusOf(peer'.h) = "running"
             /\ peer'.val # <<>> /\ peer'.val[1] = 0)
            => peer'.val = <<0, env[peer'.h][EnvVar], "">>]_vars

(* C12 witness: both environments run with their own values; while the     *)
(* first caller awaited an execute on the second handle, the other caller  *)
(* stopped the first; the execute returned the second's own value.         *)
C12_Witness ==
    /\ Done("execute")
    /\ op.h = IdOf(2)
    /\ env[IdOf(1)] = ContainerEnv(Some([CONTAINER |-> "1"]), DEFAULT_EXPIRE_SECONDS)
    /\ env[IdOf(2)] = ContainerEnv(Some([CONTAINER |-> "2"]), DEFAULT_EXPIRE_SECONDS)
    /\ peer.op = "stop"
    /\ peer.h = IdOf(1)
    /\ IdOf(1) \in stopped
    /\ outcome.kind = "ok"
    /\ outcome.val = <<0, "2", "">>

(* C13: no two environments alive at the same time share a handle.  Every  *)
(* container the platform holds has an id it issued; every launch yields   *)
(* an id not issued before, so not the handle of any environment still     *)
(* alive; and a successful start returns exactly the id of its launch.     *)
C13_HandlesDistinct ==
    /\ [](\A g \in DOMAIN status : status[g] # "absent" => g \in used)
    /\ [][(pc = "launch" /\ pc' = "poll_test")
            => /\ op'.h \notin used
               /\ op'.h # NoHandle
               /\ StatusOf(op'.h) = "absent"
               /\ \A g \in DOMAIN status : status[g] # "absent" => op'.h # g]_vars
    /\ []((Done("start") /\ outcome.kind = "ok")
            => /\ outcome.h = op.h
               /\ outcome.h \in used)

(* C13 witness: the second start returned while the first environment was  *)
(* still running. *)
C13_Witness ==
    /\ Done("start")
    /\ outcome.kind = "ok"
    /\ outcome.h = IdOf(2)
    /\ status[IdOf(1)] = "running"
    /\ status[IdOf(2)] = "running"

(* C14: the environment of the launched container is                       *)
(* {EXPIRE_SECONDS: decimal string of expire_seconds, SHELL: /bin/bash}    *)
(* overridden by the caller's map: every caller key has the caller's       *)
(* value, an injected key the caller did not pass has its injected value,  *)
(* and there is no other key.                                              *)
C14_MergedEnvironment ==
    (op.name = "start" /\ op.h \in DOMAIN env)
    => LET m == env[op.h]
           c == IF op.environment = None THEN EmptyMap ELSE op.environment[1]
       IN  /\ DOMAIN m = {"EXPIRE_SECONDS", "SHELL"} \cup DOMAIN c
           /\ \A k \in DOMAIN c : m[k] = c[k]
           /\ "EXPIRE_SECONDS" \notin DOMAIN c
                => m["EXPIRE_SECONDS"] = ToString(op.expire_seconds)
           /\ "SHELL" \notin DOMAIN c => m["SHELL"] = "/bin/bash"

(* C14 witness: the caller overrides SHELL and adds a key of its own *)
C14_Witness ==
    /\ op.name = "start"
    /\ op.h \in DOMAIN env
    /\ op.expire_seconds = 60
    /\ op.environment = Some([k \in {"SHELL", EnvVar} |-> "1"])
    /\ DOMAIN env[op.h] = EnvKeys
    /\ env[op.h]["EXPIRE_SECONDS"] = "60"
    /\ env[op.h]["SHELL"] = "1"

(* C15: the callable returned by get_executor(h) is execute bound to h.    *)
(* A call through the i-th closure enters execute with the container_id    *)
(* given when that closure was made, the command and the timeout it was    *)
(* passed, and changes nothing else, exactly as the direct call does; the  *)
(* steps that follow are those of execute.  A closure's handle is never    *)
(* changed, whatever get_executor calls come later.                        *)
C15_ExecutorIsBoundExecute ==
    /\ [][\A i \in 1..Len(executors) :
            /\ Len(executors') >= Len(executors)
            /\ executors'[i] = executors[i]]_vars
    /\ [][(pc = "idle" /\ pc' = "exec_wait")
            => /\ op'.via \in 0..Len(executors)
               /\ op'.via # 0 => op'.h = executors[op'.via]
               /\ [op' EXCEPT !.via = 0]
                    = [NoOp EXCEPT !.name = "execute", !.h = op'.h, !.arg = op'.arg,
                                   !.timeout = op'.arg, !.command = op'.command]
               /\ elapsed' = 0
               /\ outcome' = NoOutcome
               /\ UNCHANGED <<autoBuild, client, imagePresent, status, used, stopped,
                              abandoned, env, peer, executors>>]_vars
    /\ []((op.name = "execute" /\ op.via # 0)
            => /\ op.via \in 1..Len(executors)
               /\ op.h = executors[op.via])

(* C15 witness: closures for both handles exist; a call through the first, *)
(* made after the second was obtained, ran in the first environment.       *)
C15_Witness ==
    /\ Done("execute")
    /\ op.via = 1
    /\ executors = <<IdOf(1), IdOf(2)>>
    /\ op.h = IdOf(1)
    /\ outcome.kind = "ok"
    /\ outcome.cause = "none"

(* C16 as stated: no step of an execute call (its entry, its wait, its     *)
(* return, its deadline firing, an abandoned call completing) changes the  *)
(* instance's own state or the status of any container.                    *)
ExecStep ==
    \/ op'.name = "execute"
         /\ (pc' # pc \/ elapsed' # elapsed \/ outcome' # outcome \/ op' # op)
    \/ abandoned' < abandoned

C16_ExecuteChangesNothing ==
    [][ExecStep => UNCHANGED <<autoBuild, client, status>>]_vars

(* C16, amended: execute writes no field of the instance except that it    *)
(* creates the client when it is the instance's first backend call, and no *)
(* step of it changes the platform's containers, image or environments,    *)
(* whatever its outcome; so a handle that is ready when an execute ends,   *)
(* timed out or not, takes a stop the platform serves.                     *)
C16_ExecuteKeepsLifecycle ==
    /\ [][ExecStep => /\ UNCHANGED <<autoBuild, status, used, imagePresent, env, stopped>>
                      /\ client => client']_vars
    /\ [][(/\ Done("execute")
           /\ StatusOf(op.h) = "running"
           /\ op'.name = "stop" /\ op'.h = op.h /\ op'.fault = "none")
            => /\ pc' = "idle"
               /\ outcome'.kind = "ok"]_vars

(* C16 witness: an execute on a ready handle timed out and the handle is   *)
(* still ready *)
C16_Witness ==
    /\ Done("execute")
    /\ outcome.stage = "timer"
    /\ outcome.kind = "SandboxExecuteTimeoutError"
    /\ StatusOf(op.h) = "running"

(* C17: start does image readiness, then the launch, then the readiness    *)
(* polling; it returns a handle only after a probe on that handle reported *)
(* running; when the poller fails, start ends with the poller's exception  *)
(* and returns no handle.                                                  *)
C17_StartOrder ==
    /\ [][/\ pc' = "build" => pc \in {"idle", "build"}
          /\ pc' = "launch" => pc = (IF autoBuild THEN "build" ELSE "idle") \/ pc = "launch"
          /\ (InPoller' /\ op'.name = "start") => (pc = "launch" \/ InPoller)]_vars
    /\ [](op.name = "start"
            => /\ pc = "build" => calls = {}
               /\ pc = "launch" => calls \subseteq {"images.get", "images.build"}
               /\ InPoller => ("containers.run" \in calls /\ op.h \in used)
               /\ "containers.get" \in calls => "containers.run" \in calls)
    /\ []((Done("start") /\ outcome.kind = "ok")
            => /\ outcome.stage = "return"
               /\ pstatus = "running"
               /\ "containers.get" \in calls
               /\ outcome.h = op.h
               /\ outcome.h \in used)
    /\ []((Done("start") /\ outcome.stage \in {"poll", "deadline"})
            => /\ outcome.h = NoHandle
               /\ outcome.kind \in {"SandboxError", "SandboxStartTimeoutError"}
               /\ outcome.kind = "SandboxError" => TerminalStatus(pstatus))

(* C17 witness: start built the image, launched, polled a container that   *)
(* was not ready at first, and returned its handle *)
C17_Witness ==
    /\ Done("start")
    /\ outcome.kind = "ok"
    /\ outcome.h = IdOf(1)
    /\ calls = {"images.get", "images.build", "containers.run", "containers.get"}
    /\ outcome.at > 0

(* C18: provided every probe returns and the clock advances, every poller  *)
(* call ends, in exactly one of three ways: success, when the last probe   *)
(* reported running; SandboxError, when it reported exited or dead;        *)
(* SandboxStartTimeoutError otherwise.  A status that is still pending at  *)
(* the deadline ends in SandboxStartTimeoutError, not before the deadline. *)
C18_PollerTerminates ==
    /\ InPoller ~> ~InPoller
    /\ []((~InPoller /\ outcome.op \in PollOps
                     /\ outcome.stage \in {"poll", "deadline", "return"})
            => /\ outcome.kind \in {"ok", "SandboxError", "SandboxStartTimeoutError"}
               /\ outcome.kind = "ok" <=> pstatus = "running"
               /\ outcome.kind = "SandboxError" <=> pstatus \in {"exited", "dead"}
               /\ pstatus = "created"
                    => /\ outcome.kind = "SandboxStartTimeoutError"
                       /\ outcome.at >= TicksPerSecond * op.timeout[1])

(* C18 witness: the container was still pending at the last probe and the  *)
(* poller of start gave up at the deadline *)
C18_Witness ==
    /\ Done("start")
    /\ pstatus = "created"
    /\ outcome.kind = "SandboxStartTimeoutError"
    /\ op.timeout = Some(1)
    /\ outcome.at >= TicksPerSecond

(* C19: the poller never busy-spins.  Whenever a probe is about to be made *)
(* and a probe of the same call has returned before, exactly one sleep was *)
(* taken since that probe returned and it lasted the fixed interval of     *)
(* half a second, whether that probe reported a status that is not         *)
(* terminal, not-found or an API error; and no probe result other than     *)
(* these is retried.                                                       *)
C19_OneSleepBetweenProbes ==
    /\ (pc = "poll_probe" /\ op.lastProbe >= 0)
         => /\ op.sleeps = 1
            /\ 2 * (elapsed - op.lastProbe) = TicksPerSecond
            /\ pstatus \in {"created", "NotFound", "APIError"}
    /\ (pc = "poll_sleep") => (op.sleeps = 0 /\ elapsed = op.lastProbe)
    /\ (pc = "poll_test" /\ op.lastProbe >= 0) => op.sleeps = 1

(* C19 witness: a probe answered with an API error is about to be retried, *)
(* one sleep later *)
C19_Witness ==
    /\ pc = "poll_probe"
    /\ pstatus = "APIError"
    /\ op.sleeps = 1
    /\ elapsed = op.lastProbe + 1

(* C20: image readiness in start.  With auto_build, start checks whether   *)
(* the image exists and builds it exactly when it is absent: an existing   *)
(* image is never rebuilt and the Dockerfile is not looked at (no          *)
(* FileNotFoundError), and once the readiness step has passed for an       *)
(* absent image it has been built.  Without auto_build, start makes no     *)
(* image check or build, and with the image missing the launch fails with  *)
(* SandboxError.                                                           *)
ImageCalls == {"images.get", "images.build"}

C20_ImageReadiness ==
    op.name = "start"
    => /\ ~autoBuild => calls \cap ImageCalls = {}
       /\ (~autoBuild /\ ~imagePresent /\ op.dirExists /\ pc = "idle")
            => /\ outcome.kind = "SandboxError"
               /\ outcome.stage = "launch"
               /\ "containers.run" \in calls
       /\ (autoBuild /\ pc # "build") => "images.get" \in calls
       /\ "images.build" \in calls => (autoBuild /\ ~op.imgBefore)
       /\ (autoBuild /\ op.imgBefore)
            => /\ "images.build" \notin calls
               /\ outcome.kind # "FileNotFoundError"
       /\ (autoBuild /\ ~op.imgBefore /\ pc # "build" /\ outcome.stage # "build")
            => /\ "images.build" \in calls
               /\ imagePresent

(* C20 witness: auto_build with the image present: start checked it, did   *)
(* not build, and returned a handle *)
C20_Witness ==
    /\ Done("start")
    /\ autoBuild
    /\ op.imgBefore
    /\ outcome.kind = "ok"
    /\ calls = {"images.get", "containers.run", "containers.get"}

(* C21: an instance creates its backend client at most once, and every     *)
(* platform call of the instance is made on that one client, also when     *)
(* several blocking calls reach the first use at the same time.            *)
C21_OneClient ==
    /\ made <= 1
    /\ \A w \in Workers : wk[w].uses \in {0, 1}

(* C22: execute returns the platform's exit code; of a (stdout, stderr)    *)
(* pair each stream is returned as given, an absent one as empty bytes;    *)
(* combined-only output goes to stdout with stderr empty, and absent       *)
(* output gives empty stdout.                                              *)
C22_OutputAttribution ==
    (Done("execute") /\ outcome.kind = "ok" /\ outcome.cause = "none")
    => LET raw == outcome.raw
           out == raw.output
       IN  /\ Len(outcome.val) = 3
           /\ outcome.val[1] = raw.exit_code
           /\ out.shape = "pair"
                => /\ outcome.val[2] = (IF out.out = NoneBytes THEN "" ELSE out.out)
                   /\ outcome.val[3] = (IF out.err = NoneBytes THEN "" ELSE out.err)
           /\ out.shape = "combined"
                => /\ outcome.val[3] = ""
                   /\ outcome.val[2] = (IF out.out = NoneBytes THEN "" ELSE out.out)

C22_Witness ==
    /\ Done("execute") /\ outcome.kind = "ok" /\ outcome.cause = "none"
    /\ outcome.raw.output = [shape |-> "combined", out |-> "oe", err |-> NoneBytes]
    /\ outcome.raw.exit_code = 2
    /\ outcome.val = <<2, "oe", "">>

(* C23: after stop(h) has completed, every later execute on h returns a    *)
(* result with a non-zero exit code or raises a SandboxError; it never     *)
(* returns exit code 0 and never runs the command.                         *)
ExecuteRefused ==
    /\ \/ IsSandboxError(outcome.kind)
       \/ outcome.kind = "ok" /\ outcome.val[1] # 0
    /\ outcome.raw = NoRaw

Halted == {"exited", "dead", "absent"}

C24_TimeoutOnlyFromDeadline ==
    (Done("execute") /\ outcome.kind = "SandboxExecuteTimeoutError")
    => /\ PositiveTimeout(op.timeout)
       /\ outcome.stage = "timer"
       /\ outcome.at >= ExecDeadline

(* C25: when start fails in the readiness poller after the container was   *)
(* launched, start makes no stop or removal call for that container and    *)
(* the raised exception gives the caller no handle: the failing step       *)
(* leaves the platform's containers as they are.                           *)
StartCalls == {"images.get", "images.build", "containers.run", "containers.get"}

C25_FailedStartLeavesContainer ==
    /\ [](Done("start") /\ outcome.stage \in {"poll", "deadline"}
            => /\ IsSandboxError(outcome.kind)
               /\ outcome.h = NoHandle
               /\ outcome.val = <<>>
               /\ op.h \in used
               /\ calls \subseteq StartCalls
               /\ op.h \notin stopped)
    /\ [][(op.name = "start" /\ InPoller /\ pc' = "idle" /\ outcome'.kind # "ok")
            => UNCHANGED <<status, used, env, stopped>>]_vars

(* C25 witness: start timed out in the poller and the container it         *)
(* launched is running, with no handle delivered                           *)
C25_Witness ==
    /\ Done("start")
    /\ outcome.kind = "SandboxStartTimeoutError"
    /\ outcome.stage = "deadline"
    /\ outcome.h = NoHandle
    /\ op.h = IdOf(1)
    /\ status[IdOf(1)] = "running"

(* C26: the instance keeps no per-handle state.  No call writes a field of *)
(* an instance other than its lazily created client; the outcome of stop   *)
(* and execute through a second instance is what the platform's status of  *)
(* the container, its fault and its answer give; and it equals the outcome *)
(* of the same call through the instance that started the handle, made     *)
(* against the same platform state.                                        *)
OtherStepped == other' # other

C26_NoPerHandleState ==
    /\ [][/\ autoBuild' = autoBuild
          /\ client => client'
          /\ other.client => other'.client
          /\ OtherStepped => UNCHANGED <<client, made, clientRef>>
          /\ MainStep => other'.client = other.client]_vars
    /\ [](other.op = "stop"
            => LET r == StopContainer(other.pre, other.fault)
               IN  /\ other.kind = (IF r.exc = "none" THEN "ok" ELSE r.exc)
                   /\ other.val = (IF r.exc = "none" THEN <<r.status>> ELSE <<>>))
    /\ [][(OtherStepped /\ other'.op = "execute")
            => \E res \in CommandResults(other'.h, ReadVar) :
                 LET r == ExecCommand(StatusOf(other'.h), other'.fault, res)
                 IN  /\ other'.val = r.val
                     /\ other'.kind = (IF r.exc = "none" THEN "ok"
                                       ELSE ExecuteHandler(r.exc))]_vars
    /\ []((Done("stop") /\ other.op = "stop"
            /\ other.pre = op.pre /\ other.fault = op.fault)
            => /\ other.kind = outcome.kind
               /\ other.val = outcome.val)
    /\ [][(pc = "exec_wait" /\ pc' = "idle" /\ other.op = "execute"
           /\ other.pre = StatusOf(op.h) /\ other.cause = outcome'.cause
           /\ env[other.h] = env[op.h])
            => /\ other.kind = outcome'.kind
               /\ other.val = outcome'.val]_vars

(* C26 witness: the first instance started the handle and executed on it, *)
(* and a second instance, which started nothing, then stopped it           *)
C26_Witness ==
    /\ Done("execute")
    /\ op.h = IdOf(1)
    /\ outcome.kind = "ok"
    /\ outcome.val[1] = 0
    /\ other.op = "stop"
    /\ other.h = IdOf(1)
    /\ other.pre = "running"
    /\ other.kind = "ok"
    /\ other.client
    /\ status[IdOf(1)] = "exited"

(* C27: the deadline start gives the readiness poller is 30 seconds when   *)
(* timeout is None or 0 and the given timeout otherwise, and it bounds the *)
(* polling only: the poller's clock starts at its entry, whatever time the *)
(* image build and the container launch took, and start raises the timeout *)
(* error only from the poller, once the polling itself reached the         *)
(* deadline.                                                               *)
C27_DefaultDeadline ==
    /\ (op.name = "start" /\ InPoller)
         => /\ op.timeout = Some(IF op.arg = None \/ op.arg = Some(0)
                                  THEN 30 ELSE op.arg[1])
            /\ op.lastProbe = -1 /\ pc = "poll_test" => elapsed = 0
    /\ (Done("start") /\ IsSandboxTimeout(outcome.kind))
         => /\ outcome.stage \in {"poll", "deadline"}
            /\ outcome.at >= TicksPerSecond * op.timeout[1]
            /\ op.arg \in {None, Some(0)} => outcome.at >= TicksPerSecond * 30

(* C27 witness: a start without timeout whose build and launch took longer *)
(* than 30 s polled for 30 s more before it timed out                      *)
C27_Witness ==
    /\ Done("start")
    /\ op.arg = None
    /\ op.timeout = Some(30)
    /\ outcome.kind = "SandboxStartTimeoutError"
    /\ outcome.at = TicksPerSecond * 30
    /\ op.before > TicksPerSecond * 30

====
